---- MODULE Spec2Model ----
(***************************************************************************)
(* Model of the request routing and forwarding engine of claude-proxy      *)
(* (src/src/extension.ts): the stream filter, the retry supervisor with    *)
(* the supervised child processes, and the HTTP request handler.           *)
(***************************************************************************)
EXTENDS Integers, Sequences, FiniteSets, TLC

VARIABLES
    fPc,        \* a function applied on its own: "ready" before the call, "done" after
    fIn,        \* its argument (for filterLiteLLMChunk the chunk as its '\n'-split lines)
    fOut,       \* what it returned
    fwr,        \* per request: the activation of fetchWithRetry
    handle,     \* litellmProcess / cliproxyapiProcess: 0 is null, g the g-th child
    children,   \* per supervised provider: the state of every child spawned
    hpc,        \* the request handler's position for the handled request
    req,        \* the inbound request: method and parsed body
    enableJsonLogging,  \* claudeProxy.enableJsonLogging
    config,     \* what the handler read of claudeProxy.mappings / providers
    out,        \* the outbound call handed to fetchWithRetry
    currentProvider,    \* the handler's currentProvider
    targetConfig,       \* what getTargetConfig returned to the handler
    res,        \* the response to the caller: status, chunks written, ended
    readChunks, \* the chunks reader.read() has delivered so far
    responseChunks,     \* the handler's accumulator for the audit record
    audit,      \* the records saveLog has written
    inboundClosed,      \* the caller has closed the inbound connection
    disposed,   \* the cleanup registered in context.subscriptions has run
    spc,        \* settings synchronisation: which operation completed last
    mappings,   \* claudeProxy.mappings.main and .haiku
    settings    \* per scope: the Claude settings.json file

filterVars == <<fPc, fIn, fOut>>
supVars == <<fwr, handle, children, disposed>>
settingsVars == <<spc, mappings, settings>>
handlerVars == <<hpc, req, enableJsonLogging, config, out, currentProvider,
                 targetConfig, res, readChunks, responseChunks, audit, inboundClosed>>
vars == <<filterVars, supVars, handlerVars, settingsVars>>

(***************************************************************************)
(* Event-stream chunks.  A chunk (a string) is represented by the array    *)
(* that split('\n') makes of it: a non-empty sequence of newline-free      *)
(* lines whose last element is the text after the last '\n' (the empty     *)
(* line when the chunk consists of complete lines).  A line is a record:   *)
(* an "event:" line with its trimmed name, a "data:" line with its trimmed *)
(* payload, the empty line, or any other text (an SSE comment).            *)
(***************************************************************************)
Blank == [k |-> "blank"]
Comment == [k |-> "comment"]
EventLine(n) == [k |-> "event", name |-> n]
DataLine(p) == [k |-> "data", payload |-> p]

\* A data payload: whether JSON.parse accepts it, and what content_block holds.
Payload(parses, type, input, text) ==
    [parses |-> parses, type |-> type, input |-> input, text |-> text]

PEmptyTool == Payload(TRUE, "tool_use", "emptyObj", "absent")
PTool == Payload(TRUE, "tool_use", "obj", "absent")
PEmptyText == Payload(TRUE, "text", "absent", "empty")
PText == Payload(TRUE, "text", "absent", "nonempty")
PDelta == Payload(TRUE, "none", "absent", "absent")
PBad == Payload(FALSE, "none", "absent", "absent")

Payloads == {PEmptyTool, PTool, PEmptyText, PText, PDelta, PBad}
EventNames == {"content_block_start", "content_block_delta"}
Lines == {Blank, Comment} \cup {EventLine(n) : n \in EventNames}
            \cup {DataLine(p) : p \in Payloads}

\* line.startsWith('event:') and line.startsWith('data:')
IsEvent(line) == line.k = "event"
IsData(line) == line.k = "data"

\* JavaScript truthiness of content_block.input and Object.keys(input).length
Truthy(input) == input # "absent"
KeyCount(input) == IF input = "obj" THEN 1 ELSE 0

\* The two tests of the data branch; a payload that does not parse throws
\* before either test and is caught with the line kept.
DropsData(currentEvent, p) ==
    /\ p.parses
    /\ currentEvent = "content_block_start"
    /\ \/ p.type = "tool_use" /\ Truthy(p.input) /\ KeyCount(p.input) = 0
       \/ p.type = "text" /\ p.text = "empty"

\* The for loop of filterLiteLLMChunk from index i on.
RECURSIVE FilterLoop(_, _, _, _, _)
FilterLoop(lines, i, shouldSkip, currentEvent, filteredLines) ==
    IF i > Len(lines) THEN filteredLines
    ELSE LET line == lines[i]
             ev == IF IsEvent(line) THEN line.name ELSE currentEvent
             sk == IF IsEvent(line) THEN FALSE ELSE shouldSkip
         IN  IF IsData(line) /\ DropsData(ev, line.payload)
             THEN FilterLoop(lines, i + 1, TRUE, ev, filteredLines)
             ELSE FilterLoop(lines, i + 1, sk,
                             IF line = Blank /\ ~sk THEN "" ELSE ev,
                             IF sk THEN filteredLines
                                   ELSE Append(filteredLines, line))

\* filteredLines.join('\n'), again as split lines: the empty array joins to
\* the empty string, whose split is the one empty line.
Join(lines) == IF lines = <<>> THEN <<Blank>> ELSE lines

filterLiteLLMChunk(chunk) == Join(FilterLoop(chunk, 1, FALSE, "", <<>>))

\* processedValue.length === 0
IsEmptyChunk(chunk) == chunk = <<Blank>>

(***************************************************************************)
(* Supervised child processes (litellm, cliproxyapi) and fetchWithRetry.   *)
(* The configuration store and the file system are external: what a        *)
(* handler reads from them is drawn where it reads it.                     *)
(***************************************************************************)
NReq == 2
MaxChildren == 2

Requests == 1..NReq
Supervised == {"litellm", "cliproxyapi"}
FwrProviders == {"pass", "glm", "litellm", "cliproxyapi"}
\* error.message of a rejected fetch, and the status of a resolved one
ErrMsgs == {"ECONNREFUSED", "ECONNRESET"}
Statuses == {200, 429}

\* How an outbound fetch settles: a response of any status, or a rejection.
StatusLabel(st) == IF st = 200 THEN "HTTP 200" ELSE "HTTP 429"

Outcomes ==
    {[kind |-> "response", status |-> st, error |-> StatusLabel(st)] : st \in Statuses}
        \cup {[kind |-> "reject", status |-> 0, error |-> e] : e \in ErrMsgs}

\* spawned: how many cliproxyapi children had been spawned when the call's
\* own stop/start returned (0 before)
IdleCall == [pc |-> "idle", provider |-> "pass", log |-> <<>>,
             error |-> "", status |-> 0, spawned |-> 0]

\* The log of a call: "fetch" for each outbound attempt issued, then how it
\* settled (the error message of a rejection, the status of a response),
\* "stop" and "start" for the calls of stopCLIProxyAPI and startCLIProxyAPI,
\* "settled" for the elapsed timer.
RECURSIVE Count(_, _)
Count(log, e) ==
    IF log = <<>> THEN 0
    ELSE (IF Head(log) = e THEN 1 ELSE 0) + Count(Tail(log), e)

Attempts(r) == Count(fwr[r].log, "fetch")
Restarts(r) == Count(fwr[r].log, "stop")

\* stopLiteLLM / stopCLIProxyAPI on the process state P = [handle, children]
Stopped(P, p) ==
    IF P.handle[p] = 0 THEN P
    ELSE [handle |-> [P.handle EXCEPT ![p] = 0],
          children |-> [P.children EXCEPT ![p][P.handle[p]] =
                            IF @ = "running" THEN "killed" ELSE @]]

\* startLiteLLM / startCLIProxyAPI.  isEnabled: providers.<p>.enabled;
\* spawnOk: the config file exists and openSync/spawn do not throw.
Started(P, p, isEnabled, spawnOk) ==
    IF ~isEnabled THEN P
    ELSE LET Q == Stopped(P, p)
         IN  IF ~spawnOk THEN Q
             ELSE [handle |-> [Q.handle EXCEPT ![p] = Len(Q.children[p]) + 1],
                   children |-> [Q.children EXCEPT ![p] = Append(@, "running")]]

Procs == [handle |-> handle, children |-> children]

\* line 629: the first fetch is issued when fetchWithRetry is called
FwrCalled(provider) ==
    [IdleCall EXCEPT !.pc = "fetch1", !.provider = provider, !.log = <<"fetch">>]

\* await fetch(...) throws: the fetch promise rejects on a transport
\* failure only, never on an HTTP status
RejectsOnErrorStatus(o) == o.kind = "reject" \/ o.status >= 400

Rejects(o) == o.kind = "reject"

\* the providers whose transport failure is answered by restart and retry
RetriedAllSupervised(provider) == provider \in Supervised
RetriedEveryProvider(provider) == TRUE

Retried(provider) == provider = "cliproxyapi"

\* which error a failed retry rethrows
RethrowFirstError(first, retryError) == first

Rethrown(first, retryError) == retryError

\* line 629 / 644: the fetch resolves and fetchWithRetry returns the response
FetchResolves(r) ==
    /\ fwr[r].pc \in {"fetch1", "fetch2"}
    /\ \E o \in Outcomes :
          /\ ~Rejects(o)
          /\ fwr' = [fwr EXCEPT ![r].pc = "returned", ![r].status = o.status,
                         ![r].log = Append(@, o.error)]
    /\ UNCHANGED <<handle, children, disposed, filterVars, handlerVars, settingsVars>>

\* lines 630-640 and 652: the first fetch rejects
FirstFetchFails(r) ==
    /\ fwr[r].pc = "fetch1"
    /\ \E o \in Outcomes, isEnabled \in BOOLEAN, spawnOk \in BOOLEAN :
          /\ Rejects(o)
          /\ IF Retried(fwr[r].provider)
             THEN LET P == Started(Stopped(Procs, "cliproxyapi"), "cliproxyapi",
                                   isEnabled, spawnOk)
                  IN  /\ fwr' = [fwr EXCEPT ![r].pc = "settle", ![r].error = o.error,
                                     ![r].log = @ \o <<o.error, "stop", "start">>,
                                     ![r].spawned = Len(P.children["cliproxyapi"])]
                      /\ handle' = P.handle
                      /\ children' = P.children
             ELSE /\ fwr' = [fwr EXCEPT ![r].pc = "thrown", ![r].error = o.error,
                                 ![r].log = Append(@, o.error)]
                  /\ UNCHANGED <<handle, children>>
    /\ UNCHANGED <<disposed, filterVars, handlerVars, settingsVars>>

\* lines 640-644: the settle timer fires and the retry is issued
SettleDone(r) ==
    /\ fwr[r].pc = "settle"
    /\ fwr' = [fwr EXCEPT ![r].pc = "fetch2", ![r].log = @ \o <<"settled", "fetch">>]
    /\ UNCHANGED <<handle, children, disposed, filterVars, handlerVars, settingsVars>>

\* lines 645-648: the retry rejects
RetryFails(r) ==
    /\ fwr[r].pc = "fetch2"
    /\ \E o \in Outcomes :
          /\ Rejects(o)
          /\ fwr' = [fwr EXCEPT ![r].pc = "thrown",
                         ![r].error = Rethrown(@, o.error),
                         ![r].log = Append(@, o.error)]
    /\ UNCHANGED <<handle, children, disposed, filterVars, handlerVars, settingsVars>>

\* the 'exit' (or 'error') callback of child g of provider p
ChildExit(p, g) ==
    /\ g \in 1..Len(children[p])
    /\ children[p][g] \in {"running", "killed"}
    /\ children' = [children EXCEPT ![p][g] = "exited"]
    /\ handle' = [handle EXCEPT ![p] = 0]
    /\ UNCHANGED <<fwr, disposed, filterVars, handlerVars, settingsVars>>

\* lines 1068-1079: a change of claudeProxy.providers.<p>
ConfigChange(p) ==
    /\ ~disposed
    /\ Len(children[p]) < MaxChildren
    /\ \E isEnabled \in BOOLEAN, spawnOk \in BOOLEAN :
          LET P == Started(Stopped(Procs, p), p, isEnabled, spawnOk)
          IN  /\ handle' = P.handle
              /\ children' = P.children
    /\ UNCHANGED <<fwr, disposed, filterVars, handlerVars, settingsVars>>

\* lines 1083-1092: the cleanup closes the server and stops both processes;
\* the listeners in context.subscriptions are disposed with it
Dispose ==
    /\ ~disposed
    /\ disposed' = TRUE
    /\ LET P == Stopped(Stopped(Procs, "litellm"), "cliproxyapi")
       IN  /\ handle' = P.handle
           /\ children' = P.children
    /\ UNCHANGED <<fwr, filterVars, handlerVars, settingsVars>>

\* lines 1046-1050: activate has started the enabled providers
SupInit ==
    /\ disposed = FALSE
    /\ fwr = [r \in Requests |-> IdleCall]
    /\ \E up \in [Supervised -> BOOLEAN] :
          /\ handle = [p \in Supervised |-> IF up[p] THEN 1 ELSE 0]
          /\ children = [p \in Supervised |-> IF up[p] THEN <<"running">> ELSE <<>>]

(***************************************************************************)
(* The request handler (lines 790-1023) for one handled request, which is  *)
(* request 1 of fetchWithRetry.                                            *)
(***************************************************************************)
MaxChunks == 2

Undefined == "undefined"

\* JSON values of the body's model field: a string (a sequence of
\* characters), a number, or no field at all.
JStr(v) == [t |-> "string", v |-> v]
JNum == [t |-> "number", v |-> <<>>]
JUndef == [t |-> "undefined", v |-> <<>>]

\* JavaScript truthiness of requestBody.model
TruthyModel(m) == m.t = "number" \/ (m.t = "string" /\ m.v # <<>>)

Lower(c) ==
    CASE c = "H" -> "h" [] c = "A" -> "a" [] c = "I" -> "i"
      [] c = "K" -> "k" [] c = "U" -> "u" [] OTHER -> c

\* the identifier with its letters as they are
KeepCase(str) == str

ToLowerCase(str) == [i \in 1..Len(str) |-> Lower(str[i])]

Includes(str, sub) ==
    \E i \in 0..(Len(str) - Len(sub)) :
        \A j \in 1..Len(sub) : str[i + j] = sub[j]

extractModelType(modelName) ==
    IF Includes(ToLowerCase(modelName), <<"h", "a", "i", "k", "u">>)
    THEN "haiku" ELSE "main"

\* A JSON number is kept as its literal.  JSON.parse makes the nearest
\* IEEE double of it, written here as the literal JSON.stringify prints for
\* that double.
ToDouble(lit) ==
    CASE lit = "1.0" -> "1"
      [] lit = "9007199254740993" -> "9007199254740992"
      [] OTHER -> lit

\* A request body as sent: whether it is JSON text, whether it has
\* insignificant white space, its model member and its other members in
\* order, each a key with a number literal.
Member(key, lit) == [key |-> key, lit |-> lit]

BodyText(json, ws, model, others) ==
    [json |-> json, ws |-> ws, model |-> model, others |-> others]

\* JSON.parse: of members with the same key the last value is kept, at the
\* place of the first; a number becomes a double.
RECURSIVE Collapse(_, _)
Collapse(members, i) ==
    IF i > Len(members) THEN <<>>
    ELSE LET key == members[i].key
             same == {j \in 1..Len(members) : members[j].key = key}
             last == CHOOSE j \in same : \A h \in same : h <= j
         IN  (IF \E j \in same : j < i THEN <<>>
              ELSE <<Member(key, ToDouble(members[last].lit))>>)
                 \o Collapse(members, i + 1)

JsonParse(text) == [model |-> text.model, members |-> Collapse(text.others, 1)]

\* JSON.stringify: no white space, the members in insertion order
JsonStringify(obj) == BodyText(TRUE, FALSE, obj.model, obj.members)

\* A mapping string is a sequence of tokens, ":" being the separator
\* character and every other token a run of other characters.  A string in
\* general (a part of the split, a model name) is a sequence of tokens too.
RECURSIVE Split(_)
Split(str) ==
    LET seps == {i \in 1..Len(str) : str[i] = ":"}
    IN  IF seps = {} THEN <<str>>
        ELSE LET i == CHOOSE j \in seps : \A h \in seps : j <= h
             IN  <<SubSeq(str, 1, i - 1)>> \o Split(SubSeq(str, i + 1, Len(str)))

KeyProviders == {"anthropic", "glm", "kimi", "minimax", "deepseek", "custom"}

DefaultUpstream == "https://api.anthropic.com"

Endpoint(provider) ==
    CASE provider = "anthropic" -> "https://api.anthropic.com"
      [] provider = "glm" -> "https://open.bigmodel.cn/api/anthropic"
      [] provider = "kimi" -> "https://api.moonshot.cn/anthropic"
      [] provider = "minimax" -> "https://api.minimaxi.com/anthropic"
      [] provider = "deepseek" -> "https://api.deepseek.com/anthropic"
      [] provider = "custom" -> "providers.custom.baseUrl"
      [] provider = "litellm" -> "http://127.0.0.1:providers.litellm.port"
      [] provider = "cliproxyapi" -> "http://127.0.0.1:providers.cliproxyapi.port"

NoTarget == [found |-> FALSE, endpoint |-> "", model |-> JUndef,
             apiKey |-> Undefined, authMethod |-> Undefined]

\* a resolution that has a target for every mapping string
TargetForAnyMapping(mapping, isEnabled, apiKey) ==
    [found |-> TRUE, endpoint |-> DefaultUpstream, model |-> JUndef,
     apiKey |-> apiKey, authMethod |-> "x-api-key"]

\* if (!enabled) return null
NeverDisabled(isEnabled) == FALSE

NotEnabled(isEnabled) == ~isEnabled

\* const [provider, targetModel] = mapping.split(':')
FirstPart(parts) == parts[1]

SecondPart(parts) == IF Len(parts) >= 2 THEN JStr(parts[2]) ELSE JUndef

\* getTargetConfig, given mappings.<modelType> and the enabled flag and the
\* apiKey of the provider the mapping names
getTargetConfig(mapping, isEnabled, apiKey) ==
    IF mapping = <<"pass">> THEN NoTarget
    ELSE LET provider == FirstPart(Split(mapping))
             targetModel == SecondPart(Split(mapping))
         IN  IF \E p \in KeyProviders : provider = <<p>>
             THEN IF NotEnabled(isEnabled) THEN NoTarget
                  ELSE [found |-> TRUE, endpoint |-> Endpoint(provider[1]),
                        model |-> targetModel, apiKey |-> apiKey,
                        authMethod |-> "x-api-key"]
             ELSE IF \E p \in Supervised : provider = <<p>>
             THEN IF NotEnabled(isEnabled) THEN NoTarget
                  ELSE [found |-> TRUE, endpoint |-> Endpoint(provider[1]),
                        model |-> targetModel,
                        apiKey |-> IF apiKey = "" THEN Undefined ELSE apiKey,
                        authMethod |-> IF apiKey # "" THEN "token" ELSE Undefined]
             ELSE NoTarget

\* Headers: a header that is not there has the value Absent.  req.headers
\* has its names in lower case.
Absent == "absent"
HeaderNames == {"host", "content-type", "x-api-key", "authorization"}
AuthHeaders == {"x-api-key", "authorization"}
HopHeaders == {"host", "connection", "content-length"}
NoHeaders == [h \in HeaderNames |-> Absent]
NoTargetHeaders == [h \in AuthHeaders |-> Absent]

\* `Bearer ${apiKey}`
Bearer(apiKey) == IF apiKey = "k1" THEN "Bearer k1" ELSE "Bearer "

\* lines 862-869: targetHeaders of a resolved target
HasCredential(apiKey) == apiKey # Undefined /\ apiKey # ""

TargetHeaders(tc) ==
    [h \in AuthHeaders |->
        IF ~HasCredential(tc.apiKey) THEN Absent
        ELSE IF tc.authMethod = "x-api-key" /\ h = "x-api-key" THEN tc.apiKey
        ELSE IF tc.authMethod = "token" /\ h = "authorization" THEN Bearer(tc.apiKey)
        ELSE Absent]

\* lines 887-888: an inbound authentication header is skipped when
\* targetHeaders has a credential
SkipsSameHeaderOnly(lowerKey, targetHeaders) ==
    lowerKey \in AuthHeaders /\ targetHeaders[lowerKey] # Absent

SkipsInbound(lowerKey, targetHeaders) ==
    lowerKey \in AuthHeaders /\ \E h \in AuthHeaders : targetHeaders[h] # Absent

\* lines 879-892: forwardHeaders
ForwardHeaders(inbound, targetHeaders) ==
    [h \in HeaderNames |->
        IF inbound[h] # Absent /\ h \notin HopHeaders /\ ~SkipsInbound(h, targetHeaders)
        THEN inbound[h]
        ELSE IF h \in AuthHeaders THEN targetHeaders[h] ELSE Absent]

Methods == {"POST", "GET"}
InboundHeaders ==
    {[NoHeaders EXCEPT !["host"] = "127.0.0.1:4001",
                       !["content-type"] = "application/json"],
     [NoHeaders EXCEPT !["host"] = "127.0.0.1:4001",
                       !["content-type"] = "application/json",
                       !["x-api-key"] = "sk-ant-in",
                       !["authorization"] = "Bearer in-tok"]}
Bodies ==
    {BodyText(FALSE, FALSE, JUndef, <<>>),
     BodyText(TRUE, FALSE, JUndef, <<>>),
     BodyText(TRUE, FALSE, JStr(<<>>), <<>>),
     BodyText(TRUE, FALSE, JNum, <<>>),
     BodyText(TRUE, FALSE, JStr(<<"H", "a", "i", "k", "u">>), <<>>),
     BodyText(TRUE, TRUE, JStr(<<"x">>), <<Member("max_tokens", "1.0")>>),
     BodyText(TRUE, FALSE, JStr(<<"x">>), <<Member("user_id", "9007199254740993")>>)}
Mappings ==
    {<<"pass">>, <<"anthropic", ":", "claude-x">>, <<"glm", ":", "glm-4-plus">>,
     <<"litellm", ":", "gpt">>, <<"cliproxyapi", ":", "foo">>, <<"nope", ":", "m">>,
     <<"glm">>, <<"glm", ":">>, <<"litellm", ":", "ollama/llama3", ":", "8b">>}
Keys == {"", "k1"}

\* The chunks a backend body is made of: two events, and the chunk of
\* length zero.
BackendChunks ==
    {<<EventLine("content_block_delta"), DataLine(PDelta), Blank, Blank>>,
     <<EventLine("content_block_start"), DataLine(PEmptyText), Blank, Blank>>,
     <<Blank>>}

NoBody == BodyText(FALSE, FALSE, JUndef, <<>>)
NoRequest == [method |-> "", headers |-> NoHeaders, body |-> NoBody]
\* writeHeadCalls: the status of every call of res.writeHead, a call that
\* throws included; status: the status of the head that was written.
NoResponse == [status |-> 0, written |-> <<>>, ended |-> FALSE, body |-> <<>>,
               writeHeadCalls |-> <<>>]
NoConfig == [read |-> FALSE, modelType |-> "main", mapping |-> <<"pass">>,
             isEnabled |-> FALSE, apiKey |-> ""]
NoOutbound == [sent |-> FALSE, url |-> "", body |-> NoBody, headers |-> NoHeaders]

\* fetchWithRetry(targetUrl, {method: 'POST', headers, body}, currentProvider);
\* the url is written without the path req.url every url ends with
Outbound(targetUrl, targetBody, forwardHeaders) ==
    [sent |-> TRUE, url |-> targetUrl, body |-> targetBody, headers |-> forwardHeaders]

HandlerInit ==
    /\ hpc = "listening"
    /\ req = NoRequest
    /\ enableJsonLogging \in BOOLEAN
    /\ config = NoConfig
    /\ out = NoOutbound
    /\ currentProvider = "pass"
    /\ targetConfig = NoTarget
    /\ res = NoResponse
    /\ readChunks = <<>>
    /\ responseChunks = <<>>
    /\ audit = <<>>
    /\ inboundClosed = FALSE

\* line 792: req.method !== 'POST'
NotPostNorGet(method) == method \notin {"POST", "GET"}

NotPost(method) == method # "POST"

\* lines 790-802: the server's request callback
OnRequest ==
    /\ hpc = "listening"
    /\ \E m \in Methods, headers \in InboundHeaders :
          /\ req' = [req EXCEPT !.method = m, !.headers = headers]
          /\ IF NotPost(m)
             THEN /\ res' = [res EXCEPT !.status = 405, !.ended = TRUE,
                                 !.body = <<"Method Not Allowed">>,
                                 !.writeHeadCalls = Append(@, 405)]
                  /\ hpc' = "done"
             ELSE /\ hpc' = "collecting"
                  /\ UNCHANGED res
    /\ UNCHANGED <<enableJsonLogging, config, out, currentProvider, targetConfig,
                   readChunks, responseChunks, audit, inboundClosed, supVars, filterVars, settingsVars>>

\* lines 853-857: the body sent to a resolved target
TargetBody(body, tc) ==
    IF TruthyModel(tc.model)
    THEN JsonStringify([JsonParse(body) EXCEPT !.model = tc.model])
    ELSE body

\* lines 804-898: the 'end' callback up to the call of fetchWithRetry.  A
\* truthy model that is no string makes extractModelType throw outside the
\* try block: the callback's promise rejects and nothing else runs.
OnEnd ==
    /\ hpc = "collecting"
    /\ \E body \in Bodies, mapping \in Mappings, isEnabled \in BOOLEAN, apiKey \in Keys :
          /\ req' = [req EXCEPT !.body = body]
          /\ IF body.json /\ TruthyModel(body.model)
             THEN IF body.model.t # "string"
                  THEN /\ hpc' = "crashed"
                       /\ UNCHANGED <<config, out, currentProvider, targetConfig, fwr>>
                  ELSE LET tc == getTargetConfig(mapping, isEnabled, apiKey)
                           provider == IF tc.found THEN Split(mapping)[1][1] ELSE "pass"
                           targetUrl == IF tc.found THEN tc.endpoint ELSE DefaultUpstream
                           targetBody == IF tc.found THEN TargetBody(body, tc) ELSE body
                           targetHeaders == IF tc.found THEN TargetHeaders(tc)
                                            ELSE NoTargetHeaders
                       IN  /\ config' = [read |-> TRUE,
                                         modelType |-> extractModelType(body.model.v),
                                         mapping |-> mapping, isEnabled |-> isEnabled,
                                         apiKey |-> apiKey]
                           /\ targetConfig' = tc
                           /\ currentProvider' = provider
                           /\ out' = Outbound(targetUrl, targetBody,
                                              ForwardHeaders(req.headers, targetHeaders))
                           /\ fwr' = [fwr EXCEPT ![1] = FwrCalled(provider)]
                           /\ hpc' = "fetching"
             ELSE /\ out' = Outbound(DefaultUpstream, body,
                                     ForwardHeaders(req.headers, NoTargetHeaders))
                  /\ fwr' = [fwr EXCEPT ![1] = FwrCalled("pass")]
                  /\ hpc' = "fetching"
                  /\ UNCHANGED <<config, currentProvider, targetConfig>>
    /\ UNCHANGED <<enableJsonLogging, res, readChunks, responseChunks, audit,
                   inboundClosed, handle, children, disposed, filterVars,
                   settingsVars>>

\* The handler's requestBody when saveLog is called: null when the body was
\* no JSON, else the parsed body, its model replaced at line 855.
NullBody == [isNull |-> TRUE, value |-> JsonParse(NoBody)]

RequestBody ==
    IF ~req.body.json THEN NullBody
    ELSE IF targetConfig.found
         THEN [isNull |-> FALSE, value |-> JsonParse(TargetBody(req.body, targetConfig))]
         ELSE [isNull |-> FALSE, value |-> JsonParse(req.body)]

\* The handler's mappingInfo (lines 819 and 845-851), and the mapping member
\* of a request snapshot that has none.
MappingValue(is, originalModel, targetModel, endpoint, modelType, provider) ==
    [is |-> is, originalModel |-> originalModel, targetModel |-> targetModel,
     endpoint |-> endpoint, modelType |-> modelType, provider |-> provider]

NullMapping == MappingValue("null", JUndef, JUndef, "", "", "")
NoMappingMember == MappingValue("absent", JUndef, JUndef, "", "", "")

MappingInfo ==
    IF targetConfig.found
    THEN MappingValue("object", req.body.model, targetConfig.model,
                      targetConfig.endpoint, config.modelType, currentProvider)
    ELSE NullMapping

\* The request snapshot saveLog is given after the relay (lines 991-997) and
\* in the catch block (lines 1012-1017)
SentSnapshot == [headers |-> out.headers, body |-> RequestBody, mapping |-> MappingInfo]
InboundSnapshot == [headers |-> req.headers, body |-> RequestBody,
                    mapping |-> NoMappingMember]

ResponseRecord(status) ==
    [kind |-> "response", status |-> status, error |-> "", request |-> SentSnapshot]
ErrorRecord(msg) ==
    [kind |-> "error", status |-> 0, error |-> msg, request |-> InboundSnapshot]

\* saveLog (lines 400-426): what the log directory holds afterwards, and
\* whether the call throws (mkdirSync or writeFileSync fails).
saveLog(log, record, writeOk) ==
    IF ~enableJsonLogging THEN [audit |-> log, throws |-> FALSE]
    ELSE IF writeOk THEN [audit |-> Append(log, record), throws |-> FALSE]
    ELSE [audit |-> log, throws |-> TRUE]

\* The catch block (lines 1005-1021) entered with error message msg, the
\* response being r and the log directory holding log.
\* writeHead throws ERR_HTTP_HEADERS_SENT when the head was written before,
\* and an exception thrown in the catch block leaves the handler.
CatchBlock(r, log, msg, writeOk) ==
    IF r.status # 0
    THEN [res |-> [r EXCEPT !.writeHeadCalls = Append(@, 500)],
          audit |-> log, hpc |-> "crashed"]
    ELSE LET saved == saveLog(log, ErrorRecord(msg), writeOk)
         IN  [res |-> [r EXCEPT !.status = 500, !.ended = TRUE,
                                !.body = <<"error", msg>>,
                                !.writeHeadCalls = Append(@, 500)],
              audit |-> saved.audit,
              hpc |-> IF saved.throws THEN "crashed" ELSE "done"]

\* fetchWithRetry threw: lines 1005-1021
OnFetchThrown ==
    /\ hpc = "fetching"
    /\ fwr[1].pc = "thrown"
    /\ \E writeOk \in BOOLEAN :
          LET c == CatchBlock(res, audit, fwr[1].error, writeOk)
          IN  /\ res' = c.res
              /\ audit' = c.audit
              /\ hpc' = c.hpc
    /\ UNCHANGED <<req, enableJsonLogging, config, out, currentProvider, targetConfig, readChunks,
                   responseChunks, inboundClosed, supVars, filterVars, settingsVars>>

\* fetchWithRetry returned a response: lines 900-922
OnFetchReturned ==
    /\ hpc = "fetching"
    /\ fwr[1].pc = "returned"
    /\ res' = [res EXCEPT !.status = fwr[1].status,
                           !.writeHeadCalls = Append(@, fwr[1].status)]
    /\ hpc' = "relay"
    /\ UNCHANGED <<req, enableJsonLogging, config, out, currentProvider, targetConfig, readChunks,
                   responseChunks, audit, inboundClosed, supVars, filterVars, settingsVars>>

\* line 924
ShouldFilterSupervised(provider) == provider \in Supervised

shouldFilterEmptyChunks(provider) == provider = "litellm"

\* line 941: responseChunks.push(processedValue)
PushNothing(chunks, processedValue) == chunks

Push(chunks, processedValue) == Append(chunks, processedValue)

\* line 942: res.write(processedValue)
WriteAhead(written, processedValue) == <<processedValue>> \o written

ResWrite(written, processedValue) == Append(written, processedValue)

\* lines 928-943: reader.read() delivers a chunk
RelayChunk ==
    /\ hpc = "relay"
    /\ Len(readChunks) < MaxChunks
    /\ \E value \in BackendChunks :
          LET processedValue ==
                  IF shouldFilterEmptyChunks(currentProvider)
                  THEN filterLiteLLMChunk(value) ELSE value
              skipped == shouldFilterEmptyChunks(currentProvider)
                             /\ IsEmptyChunk(processedValue)
          IN  /\ readChunks' = Append(readChunks, value)
              /\ responseChunks' = IF skipped THEN responseChunks
                                   ELSE Push(responseChunks, processedValue)
              /\ res' = IF skipped THEN res
                        ELSE [res EXCEPT !.written = ResWrite(@, processedValue)]
    /\ UNCHANGED <<hpc, req, enableJsonLogging, config, out, currentProvider, targetConfig, audit,
                   inboundClosed, supVars, filterVars, settingsVars>>

\* lines 929 and 946-1003: reader.read() reports the end of the body.  The
\* saveLog call of line 990 is inside the try block: when it throws, the
\* catch block runs on the response that was just ended.
RelayDone ==
    /\ hpc = "relay"
    /\ \E writeOk \in BOOLEAN, catchWriteOk \in BOOLEAN :
          LET ended == [res EXCEPT !.ended = TRUE]
              saved == saveLog(audit, ResponseRecord(fwr[1].status), writeOk)
              c == CatchBlock(ended, saved.audit, "EACCES", catchWriteOk)
          IN  IF saved.throws
              THEN /\ res' = c.res
                   /\ audit' = c.audit
                   /\ hpc' = c.hpc
              ELSE /\ res' = ended
                   /\ audit' = saved.audit
                   /\ hpc' = "done"
    /\ UNCHANGED <<req, enableJsonLogging, config, out, currentProvider, targetConfig, readChunks,
                   responseChunks, inboundClosed, supVars, filterVars, settingsVars>>

\* line 928: reader.read() rejects (the backend connection fails mid-body)
RelayError ==
    /\ hpc = "relay"
    /\ \E e \in ErrMsgs, writeOk \in BOOLEAN :
          LET c == CatchBlock(res, audit, e, writeOk)
          IN  /\ res' = c.res
              /\ audit' = c.audit
              /\ hpc' = c.hpc
    /\ UNCHANGED <<req, enableJsonLogging, config, out, currentProvider, targetConfig, readChunks,
                   responseChunks, inboundClosed, supVars, filterVars, settingsVars>>

\* The caller closes the inbound connection; the handler registers no
\* listener for it.
ClientClose ==
    /\ hpc \in {"fetching", "relay"}
    /\ ~inboundClosed
    /\ inboundClosed' = TRUE
    /\ UNCHANGED <<hpc, req, enableJsonLogging, config, out, currentProvider, targetConfig, res,
                   readChunks, responseChunks, audit, supVars, filterVars, settingsVars>>

HandlerIdle ==
    /\ hpc = "off"
    /\ req = NoRequest
    /\ enableJsonLogging = FALSE
    /\ config = NoConfig
    /\ out = NoOutbound
    /\ currentProvider = "pass"
    /\ targetConfig = NoTarget
    /\ res = NoResponse
    /\ readChunks = <<>>
    /\ responseChunks = <<>>
    /\ audit = <<>>
    /\ inboundClosed = FALSE

FilterIdle == fPc = "off" /\ fIn = <<>> /\ fOut = <<>>

SettingsIdle == spc = "off" /\ mappings = <<>> /\ settings = <<>>

Init == SupInit /\ HandlerInit /\ FilterIdle /\ SettingsIdle

Next ==
    \/ OnRequest
    \/ OnEnd
    \/ FetchResolves(1)
    \/ FirstFetchFails(1)
    \/ SettleDone(1)
    \/ RetryFails(1)
    \/ OnFetchThrown
    \/ OnFetchReturned
    \/ RelayChunk
    \/ RelayDone
    \/ RelayError
    \/ ClientClose

Spec == Init /\ [][Next]_vars

\* Concurrent calls of fetchWithRetry, configuration changes and child exits.
Call(r) ==
    /\ ~disposed
    /\ fwr[r].pc = "idle"
    /\ \E p \in FwrProviders : fwr' = [fwr EXCEPT ![r] = FwrCalled(p)]
    /\ UNCHANGED <<handle, children, disposed, filterVars, handlerVars, settingsVars>>

SupNext ==
    \/ \E r \in Requests : Call(r)
    \/ \E r \in Requests : FetchResolves(r)
    \/ \E r \in Requests : FirstFetchFails(r)
    \/ \E r \in Requests : SettleDone(r)
    \/ \E r \in Requests : RetryFails(r)
    \/ \E p \in Supervised : ConfigChange(p)
    \/ \E p \in Supervised, g \in 1..(MaxChildren + NReq) : ChildExit(p, g)
    \/ Dispose

InitSup == SupInit /\ HandlerIdle /\ FilterIdle /\ SettingsIdle

SpecSup == InitSup /\ [][SupNext]_vars

(***************************************************************************)
(* Harness of the stream filter: every chunk of up to MaxLines lines.      *)
(***************************************************************************)
MaxLines == 4
MaxEvents == 2

RECURSIVE SeqsUpTo(_, _)
SeqsUpTo(S, n) ==
    IF n = 0 THEN {<<>>}
    ELSE LET shorter == SeqsUpTo(S, n - 1)
         IN  shorter \cup {Append(s, x) : s \in {t \in shorter : Len(t) = n - 1}, x \in S}

\* One complete event as a backend frames it: an optional event: line, a
\* data: line (or a comment alone), the blank line.
Events ==
    {<<EventLine(n), DataLine(p), Blank>> : n \in EventNames, p \in Payloads}
        \cup {<<DataLine(p), Blank>> : p \in Payloads}
        \cup {<<Comment, Blank>>}

RECURSIVE Flatten(_)
Flatten(ss) == IF ss = <<>> THEN <<>> ELSE Head(ss) \o Flatten(Tail(ss))

\* Every chunk of at most MaxLines arbitrary lines, and every chunk of at most
\* MaxEvents complete events (followed by the empty text after its last '\n').
Chunks ==
    (SeqsUpTo(Lines, MaxLines) \ {<<>>})
        \cup {Append(Flatten(es), Blank) : es \in SeqsUpTo(Events, MaxEvents)}

FilterInit ==
    /\ fPc = "ready"
    /\ fIn \in Chunks
    /\ fOut = <<>>

ApplyFilter ==
    /\ fPc = "ready"
    /\ fPc' = "done"
    /\ fOut' = filterLiteLLMChunk(fIn)
    /\ UNCHANGED <<fIn, supVars, handlerVars, settingsVars>>

SupIdle == fwr = <<>> /\ handle = <<>> /\ children = <<>> /\ disposed = FALSE

InitFilter == FilterInit /\ SupIdle /\ HandlerIdle /\ SettingsIdle

SpecFilter == InitFilter /\ [][ApplyFilter]_vars

(***************************************************************************)
(* extractModelType applied to every identifier of up to MaxIdLen          *)
(* characters.                                                             *)
(***************************************************************************)
MaxIdLen == 5

IdChars == {"h", "H", "a", "i", "I", "k", "u", "x"}
Identifiers == SeqsUpTo(IdChars, MaxIdLen)

ClassifyInit ==
    /\ fPc = "ready"
    /\ fIn \in Identifiers
    /\ fOut = <<>>

Classify ==
    /\ fPc = "ready"
    /\ fPc' = "done"
    /\ fOut' = <<extractModelType(fIn)>>
    /\ UNCHANGED <<fIn, supVars, handlerVars, settingsVars>>

InitClassify == ClassifyInit /\ SupIdle /\ HandlerIdle /\ SettingsIdle

SpecClassify == InitClassify /\ [][Classify]_vars

(***************************************************************************)
(* The choice of the audited response body (lines 949-988) from the        *)
(* accumulated text.  The text is its '\n'-split lines: a line that is one *)
(* JSON value, the empty line, a comment, or a line "data:<payload>" with  *)
(* or without the space after the colon.                                   *)
(***************************************************************************)
MaxTextLines == 3

JsonLine == [k |-> "json", space |-> FALSE, payload |-> "v"]
BlankLine == [k |-> "blank", space |-> FALSE, payload |-> ""]
CommentLine == [k |-> "comment", space |-> FALSE, payload |-> ""]
StreamLine(space, payload) == [k |-> "data", space |-> space, payload |-> payload]

TextLines ==
    {JsonLine, BlankLine, CommentLine, StreamLine(FALSE, "p1")}
        \cup {StreamLine(TRUE, p) : p \in {"p1", "p2", "[DONE]", "bad"}}

Texts == SeqsUpTo(TextLines, MaxTextLines) \ {<<>>}

\* JSON.parse(responseText) succeeds: one JSON value with white space around
WholeJson(text) ==
    \E i \in 1..Len(text) :
        /\ text[i] = JsonLine
        /\ \A j \in (1..Len(text)) \ {i} : text[j] = BlankLine

\* responseText.includes('data:')
IncludesData(text) == \E i \in 1..Len(text) : text[i].k = "data"

\* line.startsWith('data: ')
StartsWithData(line) == line.k = "data"

StartsWithDataSpace(line) == line.k = "data" /\ line.space

\* JSON.parse(dataLine) succeeds
PayloadParses(payload) == payload \in {"p1", "p2"}

\* lines 961-974: the filter of the lines and the loop over them
RECURSIVE ParsedChunks(_, _, _)
ParsedChunks(text, i, parsedChunks) ==
    IF i > Len(text) THEN parsedChunks
    ELSE IF ~StartsWithDataSpace(text[i])
         THEN ParsedChunks(text, i + 1, parsedChunks)
    ELSE IF text[i].payload = "[DONE]"
         THEN ParsedChunks(text, i + 1, parsedChunks)
    ELSE IF PayloadParses(text[i].payload)
         THEN ParsedChunks(text, i + 1, Append(parsedChunks, text[i].payload))
    ELSE ParsedChunks(text, i + 1, parsedChunks)

BodyValue(is, chunks, rawText) == [is |-> is, chunks |-> chunks, rawText |-> rawText]

\* lines 949-988: responseBody
ResponseBodyOf(text) ==
    IF WholeJson(text) THEN BodyValue("parsed", <<>>, <<>>)
    ELSE IF IncludesData(text)
         THEN LET parsedChunks == ParsedChunks(text, 1, <<>>)
              IN  IF Len(parsedChunks) > 0
                  THEN BodyValue("isStreaming", parsedChunks, text)
                  ELSE BodyValue("text", <<>>, text)
         ELSE BodyValue("text", <<>>, text)

AuditInit ==
    /\ fPc = "ready"
    /\ fIn \in Texts
    /\ fOut = <<>>

ParseResponse ==
    /\ fPc = "ready"
    /\ fPc' = "done"
    /\ fOut' = ResponseBodyOf(fIn)
    /\ UNCHANGED <<fIn, supVars, handlerVars, settingsVars>>

InitAudit == AuditInit /\ SupIdle /\ HandlerIdle /\ SettingsIdle

SpecAudit == InitAudit /\ [][ParseResponse]_vars

(***************************************************************************)
(* The Claude settings files and their synchronisation with the Main       *)
(* mapping: checkConfigurationOnStartup and selectMapping.                 *)
(***************************************************************************)
Scopes == {"workspace", "global"}

\* the targets selectMapping offers
Targets == {"pass", "glm:glm-4-plus"}

\* hasProxyConfig is !!(settings?.env?.ANTHROPIC_BASE_URL): false for the
\* empty string
getSettingsInfo(files, scope) ==
    [exists |-> files[scope].content # "missing",
     hasProxyConfig |-> files[scope].content = "url"]

detectActiveSettingsScope(files) ==
    IF getSettingsInfo(files, "workspace").exists THEN "workspace" ELSE "global"

\* updateProxyConfig with writeSettingsFile: a file that cannot be read or
\* parsed is rewritten from {}; a failed write leaves the file as it was and
\* is reported by the return value only, which no caller looks at
updateProxyConfig(files, scope, enableProxy) ==
    IF ~files[scope].writable THEN files
    ELSE [files EXCEPT ![scope].content = IF enableProxy THEN "url" ELSE "plain"]

setPassThroughMode(files) ==
    LET UpdatedIfExists(fs, scope) ==
            IF getSettingsInfo(fs, scope).exists
            THEN updateProxyConfig(fs, scope, FALSE) ELSE fs
    IN  UpdatedIfExists(UpdatedIfExists(files, "global"), "workspace")

setProxyMode(files) == updateProxyConfig(files, detectActiveSettingsScope(files), TRUE)

\* lines 745-761 and 1208-1231: the files made to agree with the Main mapping
Synchronised(files, mainMapping) ==
    IF mainMapping = "pass"
    THEN IF \E sc \in Scopes : getSettingsInfo(files, sc).hasProxyConfig
         THEN setPassThroughMode(files) ELSE files
    ELSE IF ~getSettingsInfo(files, detectActiveSettingsScope(files)).hasProxyConfig
         THEN setProxyMode(files) ELSE files

\* checkConfigurationOnStartup, run by activate (also after a window reload)
CheckConfigurationOnStartup ==
    /\ spc \in {"init", "nofile", "checked", "selected"}
    /\ IF \A sc \in Scopes : ~getSettingsInfo(settings, sc).exists
       THEN /\ spc' = "nofile"
            /\ UNCHANGED settings
       ELSE /\ spc' = "checked"
            /\ settings' = Synchronised(settings, mappings["main"])
    /\ UNCHANGED <<mappings, filterVars, supVars, handlerVars>>

\* selectMapping(modelType) with the quick pick answered by selected ("" when
\* it is dismissed)
SelectMapping(modelType) ==
    /\ spc \in {"nofile", "checked", "selected"}
    /\ \E selected \in Targets \cup {""} :
          IF selected = ""
          THEN UNCHANGED <<spc, mappings, settings>>
          ELSE LET newMainMapping == IF modelType = "main" THEN selected
                                     ELSE mappings["main"]
               IN  /\ mappings' = [mappings EXCEPT ![modelType] = selected]
                   /\ settings' = Synchronised(settings, newMainMapping)
                   /\ spc' = "selected"
    /\ UNCHANGED <<filterVars, supVars, handlerVars>>

SettingsInit ==
    /\ spc = "init"
    /\ mappings \in [{"main", "haiku"} -> Targets]
    \* a settings.json: no file; text that is no JSON; JSON without
    \* env.ANTHROPIC_BASE_URL; with a URL there; with the empty string there;
    \* writable: whether writeFileSync (and mkdirSync) succeed for it
    /\ settings \in [Scopes -> [content : {"missing", "broken", "plain", "url", "emptyUrl"},
                                writable : BOOLEAN]]

SettingsNext ==
    \/ CheckConfigurationOnStartup
    \/ \E modelType \in {"main", "haiku"} : SelectMapping(modelType)

InitSettings == SettingsInit /\ SupIdle /\ HandlerIdle /\ FilterIdle

SpecSettings == InitSettings /\ [][SettingsNext]_vars

(***************************************************************************)
(* updateProxyConfig on its own, with what a settings file holds.          *)
(***************************************************************************)
ProxyKey == "ANTHROPIC_BASE_URL"
EnvKeys == {ProxyKey, "ANTHROPIC_AUTH_TOKEN"}
TopKeys == {"model", "cleanupPeriodDays"}

\* `http://127.0.0.1:${port}` with the default port, as a JSON literal
ProxyUrl == "\"http://127.0.0.1:4001\""

\* the literals a key can hold in a file (Absent: the key is not there)
LiteralsOf(key) ==
    CASE key = "model" -> {Absent, "\"opus\""}
      [] key = "cleanupPeriodDays" -> {Absent, "30", "9007199254740993"}
      [] key = ProxyKey -> {Absent, "\"\"", ProxyUrl, "\"https://other\""}
      [] OTHER -> {Absent, "\"tok\""}

NoEntries(keys) == [k \in keys |-> Absent]
NoEnv == [is |-> "absent", at |-> NoEntries(EnvKeys)]

\* A settings file: no file ("missing"), JSON text ("json"), or text that
\* JSON.parse rejects ("text": a comment or a trailing comma in it), with the
\* top-level entries and the env entries written in it.
FileText(kind, top, env) == [kind |-> kind, top |-> top, env |-> env]
FileTexts ==
    LET Entries(keys) == {f \in [keys -> UNION {LiteralsOf(k) : k \in keys}] :
                            \A k \in keys : f[k] \in LiteralsOf(k)}
    IN  {FileText("missing", NoEntries(TopKeys), NoEnv)} \cup
        {FileText(kind, top, env) :
            kind \in {"json", "text"}, top \in Entries(TopKeys),
            env \in {NoEnv} \cup {[is |-> "object", at |-> at] : at \in Entries(EnvKeys)}}

\* readSettingsFile: null for no file and for text that does not parse,
\* else the parsed object, its numbers doubles
readSettingsFile(file) ==
    IF file.kind # "json"
    THEN [null |-> TRUE, top |-> NoEntries(TopKeys), env |-> NoEnv]
    ELSE [null |-> FALSE,
          top |-> [k \in TopKeys |-> ToDouble(file.top[k])],
          env |-> [is |-> file.env.is,
                   at |-> [k \in EnvKeys |-> ToDouble(file.env.at[k])]]]

\* writeSettingsFile: the JSON text of data, or nothing when the write fails
writeSettingsFile(file, data, writable) ==
    IF writable THEN FileText("json", data.top, data.env) ELSE file

\* lines 113-136: the object updateProxyConfig hands to writeSettingsFile
UpdatedSettings(file, enableProxy) ==
    LET read == readSettingsFile(file)
        object == IF read.null
                  THEN [null |-> FALSE, top |-> NoEntries(TopKeys), env |-> NoEnv]
                  ELSE read
        env == IF object.env.is = "absent"
               THEN [is |-> "object", at |-> NoEntries(EnvKeys)]
               ELSE object.env
        set == [env EXCEPT !.at[ProxyKey] = ProxyUrl]
        deleted == [env EXCEPT !.at[ProxyKey] = Absent]
    IN  [object EXCEPT !.env =
            IF enableProxy THEN set
            ELSE IF \A k \in EnvKeys : deleted.at[k] = Absent THEN NoEnv
            ELSE deleted]

UpdateInit ==
    /\ fPc = "ready"
    /\ fIn \in [file : FileTexts, enableProxy : BOOLEAN, writable : BOOLEAN]
    /\ fOut = <<>>

UpdateProxyConfig ==
    /\ fPc = "ready"
    /\ fPc' = "done"
    /\ fOut' = writeSettingsFile(fIn.file, UpdatedSettings(fIn.file, fIn.enableProxy),
                               fIn.writable)
    /\ UNCHANGED <<fIn, supVars, handlerVars, settingsVars>>

InitUpdate == UpdateInit /\ SupIdle /\ HandlerIdle /\ SettingsIdle

SpecUpdate == InitUpdate /\ [][UpdateProxyConfig]_vars

(***************************************************************************)
(* Retry supervisor claims.                                                *)
(***************************************************************************)
FirstFailed(r) == Len(fwr[r].log) >= 2 /\ fwr[r].log[2] \in ErrMsgs

\* What the log of a call holds once its first attempt failed and was
\* answered by stop, start, the settle wait and one retry.
RestartLog(r) == <<"fetch", fwr[r].log[2], "stop", "start">>
RetryLog(r) == RestartLog(r) \o <<"settled", "fetch">>

RestartedAndRetried(r) ==
    /\ fwr[r].pc = "settle" => fwr[r].log = RestartLog(r)
    /\ fwr[r].pc = "fetch2" => fwr[r].log = RetryLog(r)
    /\ fwr[r].pc \in {"returned", "thrown"} =>
          /\ Len(fwr[r].log) = 7
          /\ SubSeq(fwr[r].log, 1, 6) = RetryLog(r)
    /\ fwr[r].pc # "fetch1"

\* The step that takes a call from its first fetch into the settle wait
\* leaves the child that cliproxyapiProcess referred to no longer running.
RestartKillsChild(r) ==
    (fwr[r].pc = "fetch1" /\ fwr'[r].pc = "settle" /\ handle["cliproxyapi"] # 0)
        => children'["cliproxyapi"][handle["cliproxyapi"]] # "running"

\* C1 as claimed: for both supervised providers a transport failure of the
\* first call is followed by stop/restart, the settle wait and one retry.
C1_SupervisedRetried ==
    \A r \in Requests :
        (fwr[r].provider \in Supervised /\ FirstFailed(r)) => RestartedAndRetried(r)

\* C1 amended: for cliproxyapi, and only for it, a transport failure of the
\* first call is followed by stopCLIProxyAPI and startCLIProxyAPI (the child
\* that was running is killed), the settle wait and exactly one retry; a
\* request to any other provider, litellm included, causes no restart and
\* no retry.
C1_RetryShape ==
    \A r \in Requests :
        /\ (fwr[r].provider = "cliproxyapi" /\ FirstFailed(r)) => RestartedAndRetried(r)
        /\ fwr[r].provider # "cliproxyapi" => (Restarts(r) = 0 /\ Attempts(r) <= 1)

C1_CliproxyapiRetried ==
    /\ []C1_RetryShape
    /\ [][\A r \in Requests : RestartKillsChild(r)]_vars

C1_Witness ==
    /\ fwr[1].provider = "cliproxyapi"
    /\ fwr[1].pc = "returned"
    /\ fwr[1].log = RetryLog(1) \o <<"HTTP 200">>
    /\ handle["cliproxyapi"] = 2

\* C2: concurrent failing requests do not each run their own restart: two
\* requests are never both in the settle wait of a stop/start cycle of
\* their own.
C2_RestartsCollapse ==
    \A r1, r2 \in Requests :
        (r1 # r2 /\ fwr[r1].pc = "settle" /\ fwr[r2].pc = "settle")
            => ~(Restarts(r1) = 1 /\ Restarts(r2) = 1)

\* C5: at most two attempts and one restart per request; exactly one attempt
\* for pass-through and every provider that is not supervised; a failed
\* second attempt is thrown with no third attempt and no second restart.
C5_BoundedRetry ==
    \A r \in Requests :
        /\ Attempts(r) <= 2 /\ Restarts(r) <= 1
        /\ (fwr[r].provider \notin Supervised /\ fwr[r].pc # "idle") =>
              (Attempts(r) = 1 /\ Restarts(r) = 0)
        /\ (fwr[r].pc = "thrown" /\ Attempts(r) = 2) =>
              (Restarts(r) = 1 /\ fwr[r].log[Len(fwr[r].log)] \in ErrMsgs)

C5_Witness ==
    /\ fwr[1].pc = "thrown" /\ Attempts(1) = 2 /\ hpc = "done"
    /\ currentProvider = "cliproxyapi"

(***************************************************************************)
(* Request handler claims.                                                 *)
(***************************************************************************)
\* C3: every accepted POST request whose handler has stopped running has
\* had its response ended.
C3_ResponseAlwaysEnded ==
    (req.method = "POST" /\ hpc \in {"done", "crashed"}) => res.ended

\* C4: once the inbound connection is closed nothing more is read from the
\* backend for that request.
C4_NoReadAfterClose == [][inboundClosed => readChunks' = readChunks]_vars

\* The body a caller is to receive from the chunks read: for litellm the
\* filtered chunks that are not empty, for everyone else the chunks read.
RECURSIVE Relayed(_, _)
Relayed(provider, chunks) ==
    IF chunks = <<>> THEN <<>>
    ELSE LET first == IF provider = "litellm"
                      THEN filterLiteLLMChunk(Head(chunks)) ELSE Head(chunks)
         IN  (IF provider = "litellm" /\ first = <<Blank>> THEN <<>> ELSE <<first>>)
                 \o Relayed(provider, Tail(chunks))

ErrorStatusLabels == {StatusLabel(st) : st \in {x \in Statuses : x >= 400}}

\* C6: a response with an HTTP error status ends fetchWithRetry (no restart,
\* no retry follows it); the caller gets that status and the body relayed,
\* and the audit record is a response record, never an error record.
C6_ErrorStatusRelayed ==
    /\ \A i \in 1..Len(fwr[1].log) :
          fwr[1].log[i] \in ErrorStatusLabels =>
              /\ i = Len(fwr[1].log)
              /\ fwr[1].pc = "returned" /\ fwr[1].status >= 400
    /\ (fwr[1].pc = "returned" /\ fwr[1].status >= 400) =>
          /\ hpc \in {"relay", "done", "crashed"} =>
                /\ res.status = fwr[1].status
                /\ res.written = Relayed(currentProvider, readChunks)
          /\ \A i \in 1..Len(audit) : audit[i] = ResponseRecord(fwr[1].status)
          /\ (hpc = "done" /\ enableJsonLogging) => Len(audit) = 1

C6_Witness ==
    /\ fwr[1].provider = "cliproxyapi" /\ fwr[1].status = 429
    /\ Attempts(1) = 1
    /\ hpc = "done" /\ res.ended /\ Len(res.written) = 1
    /\ audit = <<ResponseRecord(429)>>

\* C7: when fetchWithRetry throws, the caller receives status 500 with the
\* body {"error": <message of the last attempt made>}.
C7_LastErrorReported ==
    (fwr[1].pc = "thrown" /\ hpc \in {"done", "crashed"}) =>
        /\ res.status = 500 /\ res.ended
        /\ res.body = <<"error", fwr[1].log[Len(fwr[1].log)]>>
        /\ res.written = <<>>

C7_Witness ==
    /\ fwr[1].pc = "thrown" /\ hpc = "done" /\ Attempts(1) = 2
    /\ fwr[1].log[2] = "ECONNREFUSED"
    /\ res.body = <<"error", "ECONNRESET">>

\* C10: for every provider but litellm, pass-through included, the chunks
\* written to the caller are the chunks read from the backend, one for one.
C10_UnfilteredRelay ==
    currentProvider # "litellm" => res.written = readChunks

C10_Witness ==
    /\ currentProvider = "cliproxyapi"
    /\ Len(readChunks) = 2
    /\ readChunks[1] = <<EventLine("content_block_start"), DataLine(PEmptyText),
                         Blank, Blank>>
    /\ res.written = readChunks
    /\ hpc = "done"

(***************************************************************************)
(* What the stream filter is specified to do: the lines of every           *)
(* content_block_start event whose block is an empty tool_use or an empty  *)
(* text (its event: line, its data: line, the blank line ending it) go,    *)
(* everything else stays.                                                  *)
(***************************************************************************)
EmptyBlock(p) ==
    /\ p.parses
    /\ \/ p.type = "tool_use" /\ p.input = "emptyObj"
       \/ p.type = "text" /\ p.text = "empty"

\* The event a line belongs to: the lines from after the previous blank line
\* up to and including the next blank line.
BlockStart(lines, j) ==
    LET before == {i \in 1..(j - 1) : lines[i] = Blank}
    IN  IF before = {} THEN 1
        ELSE (CHOOSE i \in before : \A h \in before : h <= i) + 1

BlockEnd(lines, j) ==
    LET after == {i \in j..Len(lines) : lines[i] = Blank}
    IN  IF after = {} THEN Len(lines)
        ELSE CHOOSE i \in after : \A h \in after : i <= h

\* The event lines[a..b] is a content_block_start event with an empty block.
DroppableBlock(lines, a, b) ==
    \E i \in a..b, d \in a..b :
        /\ i < d
        /\ lines[i] = EventLine("content_block_start")
        /\ \A h \in (i + 1)..(d - 1) : ~IsEvent(lines[h])
        /\ IsData(lines[d]) /\ EmptyBlock(lines[d].payload)

InDroppable(lines, j) ==
    DroppableBlock(lines, BlockStart(lines, j), BlockEnd(lines, j))

RECURSIVE KeepFrom(_, _, _)
KeepFrom(lines, j, last) ==
    IF j > last THEN <<>>
    ELSE IF InDroppable(lines, j) THEN KeepFrom(lines, j + 1, last)
         ELSE <<lines[j]>> \o KeepFrom(lines, j + 1, last)

RECURSIVE IsSubseq(_, _)
IsSubseq(s, t) ==
    IF s = <<>> THEN TRUE
    ELSE IF t = <<>> THEN FALSE
         ELSE IF Head(s) = Head(t) THEN IsSubseq(Tail(s), Tail(t))
              ELSE IsSubseq(s, Tail(t))

CompleteLines(chunk) == chunk[Len(chunk)] = Blank

\* C8: for every chunk of complete lines the filter's output is the input
\* without the event:, data: and blank line of each droppable
\* content_block_start event, every other line unchanged.
C8_DropsWholeEvent ==
    (fPc = "done" /\ CompleteLines(fIn))
        => fOut = Join(KeepFrom(fIn, 1, Len(fIn)))

\* C9: no line outside a droppable event is dropped (the lines of the
\* other events reach the output in order), and a chunk with no droppable
\* event comes back identical.
C9_KeepsOtherLines ==
    (fPc = "done" /\ CompleteLines(fIn))
        => /\ IsSubseq(KeepFrom(fIn, 1, Len(fIn) - 1), fOut)
           /\ ((\A j \in 1..Len(fIn) : ~InDroppable(fIn, j)) => fOut = fIn)

(***************************************************************************)
(* Relay and audit accumulator claims.                                     *)
(***************************************************************************)
\* C11: the body is relayed chunk by chunk: in every state the chunks
\* written to the caller are the chunks read so far (for litellm, filtered
\* and not empty), in backend order, so a chunk is written before the next
\* is read; and no chunk is written before the status and the headers.
C11_IncrementalRelay ==
    /\ res.written = Relayed(currentProvider, readChunks)
    /\ hpc = "relay" => res.writeHeadCalls = <<fwr[1].status>>
    /\ res.written # <<>> =>
          (res.status = fwr[1].status /\ res.writeHeadCalls[1] = fwr[1].status)

C11_Witness ==
    /\ hpc = "relay" /\ ~res.ended
    /\ Len(readChunks) = 2 /\ readChunks[1] # readChunks[2]
    /\ res.written = readChunks

\* C12: in every state the audit accumulator holds exactly the chunks
\* written to the caller, in the same order; a chunk that is empty after
\* filtering is in neither.
C12_AccumulatorIsWritten ==
    /\ responseChunks = res.written
    /\ currentProvider = "litellm" =>
          /\ \A i \in 1..Len(responseChunks) : ~IsEmptyChunk(responseChunks[i])
          /\ Len(responseChunks) =
                Cardinality({i \in 1..Len(readChunks) :
                                ~IsEmptyChunk(filterLiteLLMChunk(readChunks[i]))})

C12_Witness ==
    /\ currentProvider = "litellm"
    /\ Len(readChunks) = 2 /\ readChunks[1] = <<Blank>>
    /\ responseChunks = <<filterLiteLLMChunk(readChunks[2])>>
    /\ hpc = "done"

(***************************************************************************)
(* Routing claims.  What a claim says of the mapping string is written     *)
(* here from the string itself.                                            *)
(***************************************************************************)
KnownProviders == KeyProviders \cup Supervised

HasSeparator(str) == \E i \in 1..Len(str) : str[i] = ":"

FirstSeparator(str) ==
    CHOOSE i \in 1..Len(str) : str[i] = ":" /\ \A h \in 1..(i - 1) : str[h] # ":"

BeforeFirstSeparator(str) ==
    IF HasSeparator(str) THEN SubSeq(str, 1, FirstSeparator(str) - 1) ELSE str

AfterFirstSeparator(str) ==
    IF HasSeparator(str) THEN SubSeq(str, FirstSeparator(str) + 1, Len(str)) ELSE <<>>

NamesKnownProvider(str) ==
    \E p \in KnownProviders : BeforeFirstSeparator(str) = <<p>>

\* The outbound call of a request served as pass-through: the default
\* upstream, the body as it came, the inbound authentication headers.
PassThroughCall ==
    /\ out.sent
    /\ out.url = DefaultUpstream
    /\ out.body = req.body
    /\ \A h \in AuthHeaders : out.headers[h] = req.headers[h]

ResolutionNull ==
    \/ config.mapping = <<"pass">>
    \/ ~config.isEnabled
    \/ ~NamesKnownProvider(config.mapping)

PassThroughCase ==
    \/ ~req.body.json
    \/ ~TruthyModel(req.body.model)
    \/ (config.read /\ ResolutionNull)

\* C13: a request that is sent on is sent in exactly one of two modes.  It
\* is pass-through when the body is no JSON, has no model or resolution
\* returns null, and the outbound call is then the pass-through call;
\* otherwise it goes to the resolved endpoint.  A rewritten body or a
\* replaced credential occurs with a resolved target only.
C13_OneOfTwoModes ==
    out.sent =>
        /\ PassThroughCase => (PassThroughCall /\ ~targetConfig.found
                                  /\ currentProvider = "pass")
        /\ ~PassThroughCase => (targetConfig.found /\ out.url = targetConfig.endpoint
                                   /\ currentProvider # "pass")
        /\ (out.body # req.body \/ \E h \in AuthHeaders : out.headers[h] # req.headers[h])
              => targetConfig.found

C13_Witness ==
    /\ out.sent /\ config.read
    /\ config.mapping = <<"glm", ":", "glm-4-plus">> /\ ~config.isEnabled
    /\ req.headers["x-api-key"] = "sk-ant-in"
    /\ req.body.ws
    /\ PassThroughCall

\* C14: resolution returns null and does not raise when the mapping is
\* "pass" (whatever the enabled flag and the credential) and when the
\* mapping names a provider that is disabled or not recognized; the request
\* goes on to be sent as pass-through.
C14_NullResolution ==
    (config.read /\ ResolutionNull) =>
        /\ ~targetConfig.found
        /\ PassThroughCall
        /\ fwr[1].provider = "pass"

C14_Witness ==
    /\ config.read /\ config.mapping = <<"nope", ":", "m">>
    /\ config.isEnabled /\ config.apiKey = "k1"
    /\ PassThroughCall /\ hpc = "done" /\ res.status = 200

\* C15: a malformed mapping string (not "pass", and with no separator or
\* with nothing after it) resolves to null and the request is sent as
\* pass-through, also when the text before the missing separator names an
\* enabled provider.
Malformed(str) ==
    /\ str # <<"pass">>
    /\ (~HasSeparator(str) \/ AfterFirstSeparator(str) = <<>>)

C15_MalformedPassesThrough ==
    (config.read /\ Malformed(config.mapping)) =>
        (~targetConfig.found /\ PassThroughCall)

\* C16: the replacement model of a mapping "<p>:<m>" is everything after the
\* first ":", and that is the model of the outbound body.
C16_ModelAfterFirstSeparator ==
    (out.sent /\ targetConfig.found /\ AfterFirstSeparator(config.mapping) # <<>>) =>
        /\ targetConfig.model = JStr(AfterFirstSeparator(config.mapping))
        /\ out.body.model = JStr(AfterFirstSeparator(config.mapping))

\* C17: a request mapped to an enabled x-api-key provider leaves with the
\* configured credential in x-api-key (with nothing else there when the
\* credential is the empty default); a bearer-token provider gets the
\* proxy's authorization header exactly when a credential is configured.
C17_CredentialAlwaysAttached ==
    (out.sent /\ config.read /\ config.isEnabled /\ HasSeparator(config.mapping)
        /\ AfterFirstSeparator(config.mapping) # <<>>) =>
        /\ (\E p \in KeyProviders : BeforeFirstSeparator(config.mapping) = <<p>>) =>
              out.headers["x-api-key"] \in
                  (IF config.apiKey = "" THEN {"", Absent} ELSE {config.apiKey})
        /\ (\E p \in Supervised : BeforeFirstSeparator(config.mapping) = <<p>>) =>
              (config.apiKey # "" <=> out.headers["authorization"] = Bearer(config.apiKey))

\* C18: when the resolved target supplies a credential, no outbound header
\* has the value of the inbound x-api-key or authorization header, the
\* credential is under the header of its auth method and the other
\* authentication header is not there; when it supplies none, the inbound
\* x-api-key and authorization headers are in the outbound headers as
\* they came.
SuppliesCredential ==
    targetConfig.found /\ targetConfig.apiKey \notin {Undefined, ""}

InboundCredentials ==
    {req.headers[h] : h \in AuthHeaders} \ {Absent}

C18_CredentialReplaced ==
    out.sent =>
        IF SuppliesCredential
        THEN /\ \A h \in HeaderNames : out.headers[h] \notin InboundCredentials
             /\ targetConfig.authMethod = "x-api-key" =>
                   /\ out.headers["x-api-key"] = targetConfig.apiKey
                   /\ out.headers["authorization"] = Absent
             /\ targetConfig.authMethod = "token" =>
                   /\ out.headers["authorization"] = Bearer(targetConfig.apiKey)
                   /\ out.headers["x-api-key"] = Absent
             /\ targetConfig.authMethod \in {"x-api-key", "token"}
        ELSE \A h \in AuthHeaders : out.headers[h] = req.headers[h]

C18_Witness ==
    /\ out.sent /\ targetConfig.found /\ targetConfig.authMethod = "x-api-key"
    /\ req.headers["x-api-key"] = "sk-ant-in"
    /\ req.headers["authorization"] = "Bearer in-tok"
    /\ out.headers["x-api-key"] = "k1"
    /\ out.headers["authorization"] = Absent

\* C19: for a body mapped to a target with replacement model Y the outbound
\* body has model Y and the other members of the inbound body, each with
\* the value it had, none added and none removed.
\* the number a literal denotes, by its shortest literal
MathValue(lit) == IF lit = "1.0" THEN "1" ELSE lit

MemberValues(text) ==
    [i \in 1..Len(text.others) |->
        <<text.others[i].key, MathValue(text.others[i].lit)>>]

C19_OtherFieldsKept ==
    (out.sent /\ targetConfig.found /\ TruthyModel(targetConfig.model)) =>
        /\ out.body.model = targetConfig.model
        /\ MemberValues(out.body) = MemberValues(req.body)

\* C20: a failure of the audit write is swallowed: after a relay that ended
\* the response, and after the 500 of the error path, the handler has not
\* stopped on an exception and no second head (the synthetic 500) was
\* attempted.
C20_AuditFailureSwallowed ==
    /\ (res.ended /\ res.status \in Statuses) =>
          (hpc # "crashed" /\ res.writeHeadCalls = <<res.status>>)
    /\ (res.ended /\ res.status = 500) => hpc # "crashed"

(***************************************************************************)
(* Audit record claims.                                                    *)
(***************************************************************************)
\* C21: with the toggle off no record is written; with it on, a request
\* that was sent on and whose handler has stopped without a failing audit
\* write (it ended normally, or it stopped with the response not ended) has
\* exactly one record.
C21_OneRecordPerRequest ==
    /\ ~enableJsonLogging => audit = <<>>
    /\ (enableJsonLogging /\ out.sent
           /\ (hpc = "done" \/ (hpc = "crashed" /\ ~res.ended)))
          => Len(audit) = 1

\* C22: the request snapshot of every audit record, of a response or of an
\* error, has the body as transformed and a mapping member that is the
\* mapping decision when a target was resolved and null when not.
C22_SnapshotHasMapping ==
    \A i \in 1..Len(audit) :
        /\ req.body.json => audit[i].request.body = [isNull |-> FALSE,
                                                     value |-> JsonParse(out.body)]
        /\ audit[i].request.mapping.is = (IF targetConfig.found THEN "object" ELSE "null")
        /\ targetConfig.found =>
              audit[i].request.mapping =
                  MappingValue("object", req.body.model, targetConfig.model,
                               out.url, config.modelType, fwr[1].provider)

\* C25: a request with a method other than POST is answered 405 and ended;
\* there is no outbound call, no restart, no new child process and no
\* audit record.
C25_OnlyPost ==
    (req.method # "" /\ req.method # "POST") =>
        /\ res.status = 405 /\ res.ended /\ res.written = <<>>
        /\ ~out.sent /\ fwr[1] = IdleCall
        /\ \A p \in Supervised : Len(children[p]) <= 1
        /\ audit = <<>>
        /\ hpc = "done"

C25_Witness ==
    /\ req.method = "GET" /\ res.status = 405 /\ res.ended
    /\ enableJsonLogging /\ handle["cliproxyapi"] = 1

\* C29: the headers sent to a remote third-party provider (glm, kimi,
\* minimax, deepseek, custom) never hold the caller's inbound x-api-key or
\* authorization value, whatever credential is configured.
ThirdParty == {"glm", "kimi", "minimax", "deepseek", "custom"}

C29_NoInboundCredentialLeaves ==
    (out.sent /\ targetConfig.found /\ currentProvider \in ThirdParty) =>
        \A h \in HeaderNames : out.headers[h] \notin InboundCredentials

\* C23: the audited response body is the parsed value when the whole text
\* is one JSON value; else {isStreaming, chunks, rawText}, chunks being in
\* order the payloads of the lines starting with "data: " that parse as
\* JSON, when there is at least one; else the raw text.
ParsedDataLine(line) ==
    /\ line.k = "data" /\ line.space
    /\ line.payload \in {"p1", "p2"}

ExpectedChunks(text) ==
    LET kept == SelectSeq(text, ParsedDataLine)
    IN  [i \in 1..Len(kept) |-> kept[i].payload]

IsOneJsonValue(text) ==
    Cardinality({i \in 1..Len(text) : text[i] # BlankLine}) = 1
        /\ \E i \in 1..Len(text) : text[i].k = "json"

C23_ThreeTierBody ==
    fPc = "done" =>
        /\ IsOneJsonValue(fIn) => fOut.is = "parsed"
        /\ (~IsOneJsonValue(fIn) /\ ExpectedChunks(fIn) # <<>>) =>
              fOut = [is |-> "isStreaming", chunks |-> ExpectedChunks(fIn),
                      rawText |-> fIn]
        /\ (~IsOneJsonValue(fIn) /\ ExpectedChunks(fIn) = <<>>) =>
              fOut = [is |-> "text", chunks |-> <<>>, rawText |-> fIn]

C23_Witness ==
    /\ fPc = "done"
    /\ fIn = <<StreamLine(TRUE, "p1"), StreamLine(TRUE, "bad"), StreamLine(TRUE, "p2")>>
    /\ fOut.is = "isStreaming" /\ fOut.chunks = <<"p1", "p2">>

\* C24: extractModelType returns haiku exactly for the identifiers that
\* contain "haiku" in some letter case, and main for all others.
CaseForms(c) ==
    CASE c = "h" -> {"h", "H"} [] c = "a" -> {"a", "A"} [] c = "i" -> {"i", "I"}
      [] c = "k" -> {"k", "K"} [] c = "u" -> {"u", "U"}

ContainsAnyCase(str, sub) ==
    \E i \in 0..(Len(str) - Len(sub)) :
        \A j \in 1..Len(sub) : str[i + j] \in CaseForms(sub[j])

C26_LiveChildReferenced ==
    \A p \in Supervised :
        \A g \in 1..Len(children[p]) :
            children[p][g] = "running" => handle[p] = g

\* C27: when a call sends its retry, nobody has started the cliproxyapi
\* process since the call's own stop/start, whose settle interval is the one
\* that has elapsed.
C27_RetryAfterSettle ==
    [][\A r \in Requests :
          (fwr[r].pc = "settle" /\ fwr'[r].pc = "fetch2")
              => Len(children["cliproxyapi"]) = fwr[r].spawned]_vars

\* C28: once the cleanup has run no supervised child process is started.
C28_NoStartAfterDispose ==
    [][disposed => \A p \in Supervised : Len(children'[p]) = Len(children[p])]_vars

(***************************************************************************)
(* Settings synchronisation claim.                                         *)
(***************************************************************************)
\* C30: after selectMapping completed with a selection, and after the
\* startup check completed with a settings file present, the files (when
\* they can be written) agree with the Main mapping alone: with Main "pass"
\* neither file has env.ANTHROPIC_BASE_URL, otherwise the file of the active
\* scope (workspace if it exists, else global) has it.
ActiveScope ==
    IF settings["workspace"].content # "missing" THEN "workspace" ELSE "global"

C30_SettingsFollowMain ==
    (spc \in {"checked", "selected"} /\ \A sc \in Scopes : settings[sc].writable) =>
        IF mappings["main"] = "pass"
        THEN \A sc \in Scopes : settings[sc].content \notin {"url", "emptyUrl"}
        ELSE settings[ActiveScope].content \in {"url", "emptyUrl"}

(***************************************************************************)
(* Settings file frame claim.                                              *)
(***************************************************************************)
\* C31: updateProxyConfig changes nothing in a settings file except
\* env.ANTHROPIC_BASE_URL: every other top-level key and every other env
\* entry the file held before the call is there with the same value after
\* it, for every prior state of the file, one that cannot be parsed included.
SameValue(before, after) == before # Absent => MathValue(after) = MathValue(before)

C31_OtherEntriesKept ==
    fPc = "done" =>
        /\ \A k \in TopKeys : SameValue(fIn.file.top[k], fOut.top[k])
        /\ \A k \in EnvKeys \ {ProxyKey} :
              SameValue(fIn.file.env.at[k], fOut.env.at[k])
====
